---- MODULE Spec2Model ----
(***************************************************************************)
(* The map production grid (src/map_functions.py): the canvas built by     *)
(* create_grid_window, the session attributes kept on the root window and  *)
(* the handlers bound to the buttons and to the pointer events.            *)
(*                                                                         *)
(* Canvas items are numbered by Tk in creation order, from 1.  Items are   *)
(* rectangles with an outline, so two neighbouring rectangles share the    *)
(* pixel line between them: a pointer on that line overlaps both.          *)
(***************************************************************************)
EXTENDS Integers, Sequences, FiniteSets, TLC

\* ---------------------------------------------------------------- bounds

\* The largest number of interior cells of the grids explored.
MaxCells == 2

\* ------------------------------------------------------ program constants

DEFAULT_COLS == 20
DEFAULT_ROWS == 10
MAX_DIMENSION == 50
MIN_DIMENSION == 1
CELL_SIZE == 20
PADDING == 10
BORDER_THICKNESS_CELLS == 1
FILL_COLOR == "white"
GREY_FILL == "#808080"
FIXED_BORDER_FILL == "black"
BLUE_TILE_FILL == "#1e90ff"
RED_TILE_FILL == "#ff4040"
CELL_TAG == "cell"
FIXED_BORDER_TAG == "fixed-border"

\* Python's None, for an item id (Tk's item ids start at 1) and for a position.
None == 0
NonePos == <<>>

\* Python truthiness of an optional item id: None and 0 are both false.
Truthy(item_id) == item_id # None /\ item_id # 0

VARIABLES
    grid_cols,            \* root.grid_cols
    grid_rows,            \* root.grid_rows
    fill,                 \* canvas: item id -> fill colour
    border_positions,     \* root.border_positions: border item id -> <<col, row>>
    blue_tile_id,         \* root.blue_tile_id
    red_tile_id,          \* root.red_tile_id
    selecting_blue_tile,  \* root.selecting_blue_tile
    selecting_red_tile,   \* root.selecting_red_tile
    select_blue_button,   \* state of the [select blue tile] button
    select_red_button,    \* state of the [select red tile] button
    status,               \* status_var
    messagebox,           \* the dialog the last handler showed ("" when none)
    image,                \* <<width, height>> of the raster the last handler saved
    pc,                   \* where main() is: "prompt", "main", "mainloop" or "exit"
    prompt,               \* the setup dialog: cols_var, rows_var, error_var
    dimensions            \* result["value"], which main receives as dimensions

canvas == <<grid_cols, grid_rows, border_positions>>
session == <<blue_tile_id, red_tile_id, selecting_blue_tile, selecting_red_tile>>
buttons == <<select_blue_button, select_red_button>>
startup == <<pc, prompt, dimensions>>
vars == <<startup, canvas, fill, session, buttons, status, messagebox, image>>

\* No raster was saved, and the setup dialog is destroyed.
NoImage == <<>>
NoPrompt == <<>>

\* ------------------------------------------------- create_grid_window

border_pixels == BORDER_THICKNESS_CELLS * CELL_SIZE
grid_left == PADDING + border_pixels
grid_top == PADDING + border_pixels

\* Faulty variant: the padding and the border are counted on one side only.
CanvasWidth_one_side(cols) == cols * CELL_SIZE + PADDING + border_pixels

\* Width and height of the canvas of a cols x rows grid, in pixels.
CanvasWidth(cols) == cols * CELL_SIZE + (PADDING + border_pixels) * 2
CanvasHeight(rows) == rows * CELL_SIZE + (PADDING + border_pixels) * 2

\* The rectangle <<x0, y0, x1, y1>> of the square at grid position (col, row),
\* cell or border.
SquareCoords(col, row) ==
    LET x0 == grid_left + col * CELL_SIZE
        y0 == grid_top + row * CELL_SIZE
    IN  <<x0, y0, x0 + CELL_SIZE, y0 + CELL_SIZE>>

\* The interior cells in creation order: row by row, column by column.
CellSequence(cols, rows) ==
    [i \in 1..(IF cols > 0 /\ rows > 0 THEN cols * rows ELSE 0) |->
        <<(i - 1) % cols, (i - 1) \div cols>>]

\* The indices 1..n of a loop over range(n), which is empty when n <= 0.
Range(n) == 1..(IF n > 0 THEN n ELSE 0)

\* Faulty variant: the side columns run over rows -1..rows, so that each
\* corner is drawn a second time.
BorderSequence_with_corners(cols, rows) ==
    [k \in Range(2 * (cols + 2 * BORDER_THICKNESS_CELLS)) |->
        <<((k - 1) \div 2) - BORDER_THICKNESS_CELLS,
          IF k % 2 = 1 THEN -BORDER_THICKNESS_CELLS ELSE rows>>]
    \o [k \in Range(2 * (rows + 2)) |->
        <<IF k % 2 = 1 THEN -BORDER_THICKNESS_CELLS ELSE cols, ((k - 1) \div 2) - 1>>]

\* The border squares in the order _draw_border_cell is called: the top and
\* bottom square of each column -1..cols, then the left and right square of
\* each row 0..rows-1.
BorderSequence(cols, rows) ==
    [k \in Range(2 * (cols + 2 * BORDER_THICKNESS_CELLS)) |->
        <<((k - 1) \div 2) - BORDER_THICKNESS_CELLS,
          IF k % 2 = 1 THEN -BORDER_THICKNESS_CELLS ELSE rows>>]
    \o [k \in Range(2 * rows) |->
        <<IF k % 2 = 1 THEN -BORDER_THICKNESS_CELLS ELSE cols, (k - 1) \div 2>>]

\* The canvas items create_grid_window(cols, rows) creates, by item id: Tk
\* numbers the items from 1 in creation order, the cells first.  An item's
\* tags and coordinates never change after its creation; its fill does.
Rectangle(tag, pos) ==
    [tags |-> {tag}, pos |-> pos, coords |-> SquareCoords(pos[1], pos[2])]
DisplayList(cells, border) ==
    [id \in 1..(Len(cells) + Len(border)) |->
        IF id <= Len(cells) THEN Rectangle(CELL_TAG, cells[id])
        ELSE Rectangle(FIXED_BORDER_TAG, border[id - Len(cells)])]
CanvasItems(cols, rows) ==
    DisplayList(CellSequence(cols, rows), BorderSequence(cols, rows))

\* The window create_grid_window(cols, rows) returns: its canvas, the
\* attributes set on root, the buttons and the status line.  The function
\* does not look at the range of cols and rows.
Root(cols, rows, items) ==
    [grid_cols |-> cols,
     grid_rows |-> rows,
     fill |-> [id \in DOMAIN items |->
                  IF CELL_TAG \in items[id].tags THEN FILL_COLOR ELSE FIXED_BORDER_FILL],
     border_positions |->
           [id \in {i \in DOMAIN items : FIXED_BORDER_TAG \in items[i].tags} |->
               items[id].pos],
     blue_tile_id |-> None,
     red_tile_id |-> None,
     selecting_blue_tile |-> FALSE,
     selecting_red_tile |-> FALSE,
     select_blue_button |-> "normal",
     select_red_button |-> "normal",
     status |-> "Use the buttons to place blue and red border tiles."]
create_grid_window(cols, rows) == Root(cols, rows, CanvasItems(cols, rows))

\* The window is root: the state in which root.mainloop() starts.
Window(root) ==
    /\ grid_cols = root.grid_cols
    /\ grid_rows = root.grid_rows
    /\ fill = root.fill
    /\ border_positions = root.border_positions
    /\ blue_tile_id = root.blue_tile_id
    /\ red_tile_id = root.red_tile_id
    /\ selecting_blue_tile = root.selecting_blue_tile
    /\ selecting_red_tile = root.selecting_red_tile
    /\ select_blue_button = root.select_blue_button
    /\ select_red_button = root.select_red_button
    /\ status = root.status
    /\ messagebox = ""
    /\ image = NoImage

\* The grids explored: every cols x rows of at most MaxCells cells that has no
\* more rows than columns.
Dimensions == {d \in (MIN_DIMENSION..MaxCells) \X (MIN_DIMENSION..MaxCells) :
                  d[1] * d[2] <= MaxCells /\ d[2] <= d[1]}

\* The grid of the worked 3 x 2 scenario, and all grids with pointer events.
ScenarioGrids == {<<3, 2>>}
Grids == Dimensions \cup ScenarioGrids

\* The session starts when the setup dialog has returned d and main has
\* created the window for it.
Init ==
    \E d \in Dimensions :
        /\ pc = "mainloop"
        /\ prompt = NoPrompt
        /\ dimensions = d
        /\ Window(create_grid_window(d[1], d[2]))

\* ------------------------------------------------------- canvas queries

RECURSIVE Ascending(_)
\* The ids of S in ascending order.
Ascending(S) ==
    IF S = {} THEN <<>>
    ELSE LET m == CHOOSE a \in S : \A b \in S : a <= b
         IN  <<m>> \o Ascending(S \ {m})

\* The rectangle, outline included, covers the pixel (x, y).
Covers(rect, x, y) ==
    /\ rect[1] <= x /\ x <= rect[3]
    /\ rect[2] <= y /\ y <= rect[4]

\* The pointer is sampled every half cell, which puts it inside every square,
\* on every line two squares share, and on the empty padding.
PointerStep == CELL_SIZE \div 2
PointerGrid(cols, rows) ==
    {<<kx * PointerStep, ky * PointerStep>> :
        kx \in 0..(CanvasWidth(cols) \div PointerStep),
        ky \in 0..(CanvasHeight(rows) \div PointerStep)}

\* Every sampled pixel of every grid, as <<cols, rows, x, y>>.
Pixels ==
    UNION {{<<d[1], d[2], p[1], p[2]>> : p \in PointerGrid(d[1], d[2])} : d \in Grids}

\* For each grid and each sampled pixel, the items under the pixel, lowest in
\* the display list first.  The display list is the creation order: the border
\* squares are created after the cells, and tag_raise keeps them on top.
Overlapping(items, x, y) ==
    Ascending({id \in DOMAIN items : Covers(items[id].coords, x, y)})
OverlapTable ==
    [k \in Pixels |-> Overlapping(CanvasItems(k[1], k[2]), k[3], k[4])]

\* The tags of each item of each grid, by <<cols, rows, item id>>.
TagTable ==
    [k \in UNION {{<<d[1], d[2], id>> : id \in DOMAIN CanvasItems(d[1], d[2])} :
                     d \in Grids} |->
        CanvasItems(k[1], k[2])[k[3]].tags]

\* The handlers read the pointer's pixel only through the items under it, so
\* one sampled pixel stands for all those of the same grid with the same items
\* under them.
PointerSamples ==
    {CHOOSE k \in Pixels : k[1] = c[1] /\ k[2] = c[2] /\ OverlapTable[k] = c[3] :
        c \in {<<q[1], q[2], OverlapTable[q]>> : q \in Pixels}}
\* The items under each pixel the pointer is put on.
SampleTable == [k \in PointerSamples |-> OverlapTable[k]]

\* canvas.gettags(item_id)
gettags(item_id) == TagTable[<<grid_cols, grid_rows, item_id>>]

\* canvas.find_overlapping(x, y, x, y)
find_overlapping(x, y) == SampleTable[<<grid_cols, grid_rows, x, y>>]

\* canvas.find_withtag("current"): the topmost item under the pointer, if any.
find_withtag_current(x, y) ==
    LET overlap == find_overlapping(x, y)
    IN  IF overlap = <<>> THEN <<>> ELSE <<overlap[Len(overlap)]>>

RECURSIVE FirstWithTag(_, _)
\* The loop of _border_item_from_event: the first item carrying the tag.
FirstWithTag(items, tag) ==
    IF items = <<>> THEN None
    ELSE IF tag \in gettags(Head(items)) THEN Head(items)
    ELSE FirstWithTag(Tail(items), tag)

\* Faulty variant: no border item is ever found under the pointer.
_border_item_from_event_none(x, y) == None

_border_item_from_event(x, y) ==
    LET current == find_withtag_current(x, y)
        items == IF current = <<>> THEN find_overlapping(x, y) ELSE current
    IN  FirstWithTag(items, FIXED_BORDER_TAG)

\* root.border_positions.get(item_id)
border_positions_get(item_id) ==
    IF item_id \in DOMAIN border_positions THEN border_positions[item_id] ELSE NonePos

Abs(n) == IF n < 0 THEN -n ELSE n

\* Faulty variant: the coordinate differences are summed without abs().
_positions_adjacent_no_abs(first, second) ==
    IF first = NonePos \/ second = NonePos THEN FALSE
    ELSE (first[1] - second[1]) + (first[2] - second[2]) = 1

\* Faulty variant: diagonal neighbours count as adjacent too.
_positions_adjacent_diagonal(first, second) ==
    IF first = NonePos \/ second = NonePos THEN FALSE
    ELSE /\ Abs(first[1] - second[1]) <= 1
         /\ Abs(first[2] - second[2]) <= 1
         /\ first # second

_positions_adjacent(first, second) ==
    IF first = NonePos \/ second = NonePos THEN FALSE
    ELSE Abs(first[1] - second[1]) + Abs(first[2] - second[2]) = 1

\* ----------------------------------------------------------- _color_cell

\* Faulty variant: the first item under the pointer is painted, whatever its tag.
ColorLoop_any_item(overlap, fills, fill_color) ==
    IF overlap = <<>> THEN fills
    ELSE [fills EXCEPT ![Head(overlap)] = fill_color]

RECURSIVE ColorLoop_toggle(_, _, _)
\* Faulty variant: a cell that already has the colour is flipped to the other one.
ColorLoop_toggle(overlap, fills, fill_color) ==
    IF overlap = <<>> THEN fills
    ELSE IF FIXED_BORDER_TAG \in gettags(Head(overlap)) THEN fills
    ELSE IF CELL_TAG \in gettags(Head(overlap))
         THEN [fills EXCEPT ![Head(overlap)] =
                  IF @ # fill_color THEN fill_color
                  ELSE IF fill_color = GREY_FILL THEN FILL_COLOR ELSE GREY_FILL]
    ELSE ColorLoop_toggle(Tail(overlap), fills, fill_color)

RECURSIVE ColorLoop_no_return(_, _, _)
\* Faulty variant: the loop goes on after painting a cell.
ColorLoop_no_return(overlap, fills, fill_color) ==
    IF overlap = <<>> THEN fills
    ELSE IF FIXED_BORDER_TAG \in gettags(Head(overlap)) THEN fills
    ELSE IF CELL_TAG \in gettags(Head(overlap))
         THEN ColorLoop_no_return(Tail(overlap),
                                  [fills EXCEPT ![Head(overlap)] = fill_color], fill_color)
    ELSE ColorLoop_no_return(Tail(overlap), fills, fill_color)

RECURSIVE ColorLoop(_, _, _)
\* The loop of _color_cell over the overlapping items: the fills it leaves.
ColorLoop(overlap, fills, fill_color) ==
    IF overlap = <<>> THEN fills
    ELSE IF FIXED_BORDER_TAG \in gettags(Head(overlap)) THEN fills
    ELSE IF CELL_TAG \in gettags(Head(overlap))
         THEN [fills EXCEPT ![Head(overlap)] = fill_color]
    ELSE ColorLoop(Tail(overlap), fills, fill_color)

\* Faulty variant: the selecting flags are not consulted.
_color_cell_unguarded(x, y, fill_color) ==
    /\ fill' = ColorLoop(find_overlapping(x, y), fill, fill_color)
    /\ messagebox' = ""
    /\ image' = NoImage
    /\ UNCHANGED <<startup, canvas, session, buttons, status>>

_color_cell(x, y, fill_color) ==
    /\ fill' = IF selecting_blue_tile \/ selecting_red_tile
               THEN fill
               ELSE ColorLoop(find_overlapping(x, y), fill, fill_color)
    /\ messagebox' = ""
    /\ image' = NoImage
    /\ UNCHANGED <<startup, canvas, session, buttons, status>>

\* ------------------------------------------------------- marker helpers

\* Faulty variant: the previous blue tile is not restored.
_apply_blue_tile_keep_previous(item_id) ==
    [fill EXCEPT ![item_id] = BLUE_TILE_FILL]

\* The fills _apply_blue_tile leaves (root.blue_tile_id becomes item_id).
_apply_blue_tile(item_id) ==
    LET previous_id == blue_tile_id
        restored == IF Truthy(previous_id) /\ previous_id # item_id
                    THEN [fill EXCEPT ![previous_id] = FIXED_BORDER_FILL]
                    ELSE fill
    IN  [restored EXCEPT ![item_id] = BLUE_TILE_FILL]

\* The fills _clear_blue_tile(canvas, root, item_id) leaves.
_clear_blue_tile_fill(item_id) ==
    LET target_id == IF item_id # None THEN item_id ELSE blue_tile_id
    IN  IF target_id = None THEN fill
        ELSE [fill EXCEPT ![target_id] = FIXED_BORDER_FILL]

\* Faulty variant: root.blue_tile_id is not reset.
_clear_blue_tile_id_kept(item_id) == blue_tile_id

\* The value of root.blue_tile_id after _clear_blue_tile(canvas, root, item_id).
_clear_blue_tile_id(item_id) ==
    LET target_id == IF item_id # None THEN item_id ELSE blue_tile_id
    IN  IF target_id # None /\ blue_tile_id = target_id THEN None ELSE blue_tile_id

_apply_red_tile(item_id) ==
    LET previous_id == red_tile_id
        restored == IF Truthy(previous_id) /\ previous_id # item_id
                    THEN [fill EXCEPT ![previous_id] = FIXED_BORDER_FILL]
                    ELSE fill
    IN  [restored EXCEPT ![item_id] = RED_TILE_FILL]

\* Faulty variant: the item keeps its red fill.
_clear_red_tile_fill_kept(item_id) == fill

_clear_red_tile_fill(item_id) ==
    LET target_id == IF item_id # None THEN item_id ELSE red_tile_id
    IN  IF target_id = None THEN fill
        ELSE [fill EXCEPT ![target_id] = FIXED_BORDER_FILL]

_clear_red_tile_id(item_id) ==
    LET target_id == IF item_id # None THEN item_id ELSE red_tile_id
    IN  IF target_id # None /\ red_tile_id = target_id THEN None ELSE red_tile_id

\* ------------------------------------------------------ border handlers

\* A handler that returns without touching the session or the canvas.
Return ==
    /\ messagebox' = ""
    /\ image' = NoImage
    /\ UNCHANGED <<startup, canvas, fill, session, buttons, status>>

\* Faulty variant: the refusal also leaves the selection mode.
Refuse_and_leave(title, message) ==
    /\ messagebox' = title
    /\ image' = NoImage
    /\ status' = message
    /\ selecting_blue_tile' = FALSE
    /\ selecting_red_tile' = FALSE
    /\ UNCHANGED <<startup, canvas, fill, blue_tile_id, red_tile_id, buttons>>

\* A placement refused with an error dialog and a status line.
Refuse(title, message) ==
    /\ messagebox' = title
    /\ image' = NoImage
    /\ status' = message
    /\ UNCHANGED <<startup, canvas, fill, session, buttons>>

\* Faulty variant: the other tile's block is not recognised.
SlotTaken_never(tile_id, item_id) == FALSE

\* root.red_tile_id == item_id, root.blue_tile_id == item_id
SlotTaken(tile_id, item_id) == tile_id = item_id

handle_border_left_click(x, y) ==
    IF ~selecting_blue_tile /\ ~selecting_red_tile THEN Return
    ELSE LET item_id == _border_item_from_event(x, y)
             item_pos == border_positions_get(item_id)
             red_pos == IF red_tile_id # None
                        THEN border_positions_get(red_tile_id) ELSE NonePos
             blue_pos == IF blue_tile_id # None
                         THEN border_positions_get(blue_tile_id) ELSE NonePos
         IN
         IF item_id = None THEN Return
         ELSE IF selecting_blue_tile THEN
              IF SlotTaken(red_tile_id, item_id)
              THEN Refuse("Blue Tile", "Blue tile location unavailable; overlaps red tile.")
              ELSE IF _positions_adjacent(item_pos, red_pos)
              THEN Refuse("Blue Tile", "Blue tile must not touch the red tile.")
              ELSE /\ fill' = _apply_blue_tile(item_id)
                   /\ blue_tile_id' = item_id
                   /\ selecting_blue_tile' = FALSE
                   /\ select_blue_button' = "normal"
                   /\ select_red_button' = "normal"
                   /\ status' = "Blue tile placed."
                   /\ messagebox' = ""
                   /\ image' = NoImage
                   /\ UNCHANGED <<startup, canvas, red_tile_id, selecting_red_tile>>
         ELSE \* selecting_red_tile
              IF SlotTaken(blue_tile_id, item_id)
              THEN Refuse("Red Tile", "Red tile location unavailable; overlaps blue tile.")
              ELSE IF _positions_adjacent(item_pos, blue_pos)
              THEN Refuse("Red Tile", "Red tile must not touch the blue tile.")
              ELSE /\ fill' = _apply_red_tile(item_id)
                   /\ red_tile_id' = item_id
                   /\ selecting_red_tile' = FALSE
                   /\ select_red_button' = "normal"
                   /\ select_blue_button' = "normal"
                   /\ status' = "Red tile placed."
                   /\ messagebox' = ""
                   /\ image' = NoImage
                   /\ UNCHANGED <<startup, canvas, blue_tile_id, selecting_blue_tile>>

handle_border_right_click(x, y) ==
    IF ~selecting_blue_tile /\ ~selecting_red_tile THEN Return
    ELSE LET item_id == _border_item_from_event(x, y)
         IN
         IF item_id = None THEN Return
         ELSE IF selecting_blue_tile THEN
              IF blue_tile_id = item_id
              THEN /\ fill' = _clear_blue_tile_fill(item_id)
                   /\ blue_tile_id' = _clear_blue_tile_id(item_id)
                   /\ selecting_blue_tile' = FALSE
                   /\ select_blue_button' = "normal"
                   /\ select_red_button' = "normal"
                   /\ status' = "Blue tile cleared."
                   /\ messagebox' = ""
                   /\ image' = NoImage
                   /\ UNCHANGED <<startup, canvas, red_tile_id, selecting_red_tile>>
              ELSE IF blue_tile_id = None
              THEN /\ selecting_blue_tile' = FALSE
                   /\ select_blue_button' = "normal"
                   /\ select_red_button' = "normal"
                   /\ status' = "Blue tile selection cancelled."
                   /\ messagebox' = ""
                   /\ image' = NoImage
                   /\ UNCHANGED <<startup, canvas, fill, blue_tile_id, red_tile_id,
                                  selecting_red_tile>>
              ELSE Return
         ELSE \* selecting_red_tile
              IF red_tile_id = item_id
              THEN /\ fill' = _clear_red_tile_fill(item_id)
                   /\ red_tile_id' = _clear_red_tile_id(item_id)
                   /\ selecting_red_tile' = FALSE
                   /\ select_red_button' = "normal"
                   /\ select_blue_button' = "normal"
                   /\ status' = "Red tile cleared."
                   /\ messagebox' = ""
                   /\ image' = NoImage
                   /\ UNCHANGED <<startup, canvas, blue_tile_id, selecting_blue_tile>>
              ELSE IF red_tile_id = None
              THEN /\ selecting_red_tile' = FALSE
                   /\ select_red_button' = "normal"
                   /\ select_blue_button' = "normal"
                   /\ status' = "Red tile selection cancelled."
                   /\ messagebox' = ""
                   /\ image' = NoImage
                   /\ UNCHANGED <<startup, canvas, fill, blue_tile_id, red_tile_id,
                                  selecting_blue_tile>>
              ELSE Return

\* ------------------------------------------------------ button commands

\* Faulty variant: a red selection in progress is not looked at.
start_blue_tile_selection_unguarded ==
    IF selecting_blue_tile THEN Return
    ELSE /\ selecting_blue_tile' = TRUE
         /\ select_blue_button' = "disabled"
         /\ select_red_button' = "disabled"
         /\ status' = "Select a border block for the blue tile. Right-click the current blue tile to clear it."
         /\ messagebox' = ""
         /\ image' = NoImage
         /\ UNCHANGED <<startup, canvas, fill, blue_tile_id, red_tile_id, selecting_red_tile>>

start_blue_tile_selection ==
    IF selecting_blue_tile THEN Return
    ELSE IF selecting_red_tile
    THEN /\ status' = "Finish placing the red tile before choosing the blue tile."
         /\ messagebox' = ""
         /\ image' = NoImage
         /\ UNCHANGED <<startup, canvas, fill, session, buttons>>
    ELSE /\ selecting_blue_tile' = TRUE
         /\ select_blue_button' = "disabled"
         /\ select_red_button' = "disabled"
         /\ status' = "Select a border block for the blue tile. Right-click the current blue tile to clear it."
         /\ messagebox' = ""
         /\ image' = NoImage
         /\ UNCHANGED <<startup, canvas, fill, blue_tile_id, red_tile_id, selecting_red_tile>>

start_red_tile_selection ==
    IF selecting_red_tile THEN Return
    ELSE IF selecting_blue_tile
    THEN /\ status' = "Finish placing the blue tile before choosing the red tile."
         /\ messagebox' = ""
         /\ image' = NoImage
         /\ UNCHANGED <<startup, canvas, fill, session, buttons>>
    ELSE /\ selecting_red_tile' = TRUE
         /\ select_red_button' = "disabled"
         /\ select_blue_button' = "disabled"
         /\ status' = "Select a border block for the red tile. Right-click the current red tile to clear it."
         /\ messagebox' = ""
         /\ image' = NoImage
         /\ UNCHANGED <<startup, canvas, fill, blue_tile_id, red_tile_id, selecting_blue_tile>>

\* canvas.winfo_width(), canvas.winfo_height() after update_idletasks: the
\* canvas is packed at the size it was created with.
winfo_width == CanvasWidth(grid_cols)
winfo_height == CanvasHeight(grid_rows)

\* Faulty variant: a failed save leaves the selection abandoned.
save_canvas_snapshot_abandons_selection ==
    \/ /\ messagebox' = "Save Failed" /\ image' = NoImage
       /\ selecting_blue_tile' = FALSE /\ selecting_red_tile' = FALSE
       /\ UNCHANGED <<startup, canvas, fill, blue_tile_id, red_tile_id, buttons, status>>
    \/ /\ messagebox' = "Saved" /\ image' = <<winfo_width, winfo_height>>
       /\ UNCHANGED <<startup, canvas, fill, session, buttons, status>>

\* save_canvas_snapshot(canvas): it reads the canvas and reports by a dialog.
\* Rendering or writing may raise; the exception is caught inside.
save_canvas_snapshot ==
    /\ \/ messagebox' = "Save Failed" /\ image' = NoImage
       \/ messagebox' = "Saved" /\ image' = <<winfo_width, winfo_height>>
    /\ UNCHANGED <<startup, canvas, fill, session, buttons, status>>

\* Faulty variant: the save is blocked only when both tiles are missing.
SaveBlocked_both == blue_tile_id = None /\ red_tile_id = None

\* Faulty variant: only a missing blue tile blocks the save.
SaveBlocked_blue_only == blue_tile_id = None

\* The save guard: both tile ids must be set.
SaveBlocked == blue_tile_id = None \/ red_tile_id = None

guarded_save ==
    IF SaveBlocked
    THEN /\ messagebox' = "Save Blocked"
         /\ image' = NoImage
         /\ UNCHANGED <<startup, canvas, fill, session, buttons, status>>
    ELSE save_canvas_snapshot

\* ------------------------------------------------------- pointer events

PointerTable ==
    [d \in Dimensions |->
        {<<k[3], k[4]>> : k \in {q \in PointerSamples : q[1] = d[1] /\ q[2] = d[2]}}]

\* On a scenario grid the pointer is put inside the border blocks of the top
\* and the bottom row and inside the first cell: on the sampled pixels with
\* one item under them, which is item 1 or one of those blocks.
ScenarioItems(cols, rows) ==
    {1} \cup {id \in DOMAIN CanvasItems(cols, rows) :
                 /\ FIXED_BORDER_TAG \in CanvasItems(cols, rows)[id].tags
                 /\ CanvasItems(cols, rows)[id].pos[2] \in {-BORDER_THICKNESS_CELLS, rows}}
ScenarioPointerTable ==
    [d \in ScenarioGrids |->
        {<<k[3], k[4]>> :
            k \in {q \in PointerSamples :
                      /\ q[1] = d[1] /\ q[2] = d[2]
                      /\ Len(SampleTable[q]) = 1
                      /\ SampleTable[q][1] \in ScenarioItems(d[1], d[2])}}]

\* The pixels the pointer is put on.  On a grid that is neither one of
\* Dimensions nor a scenario grid no pointer event is explored.
Pointer ==
    IF <<grid_cols, grid_rows>> \in Dimensions THEN PointerTable[<<grid_cols, grid_rows>>]
    ELSE IF <<grid_cols, grid_rows>> \in ScenarioGrids
         THEN ScenarioPointerTable[<<grid_cols, grid_rows>>]
    ELSE {}

\* The tags of the item Tk delivers a button press to: the current item.
CurrentTags(x, y) ==
    LET current == find_withtag_current(x, y)
    IN  IF current = <<>> THEN {} ELSE gettags(current[1])

\* <Button-1>: tag_bind(CELL_TAG) paints grey, tag_bind(FIXED_BORDER_TAG)
\* runs handle_border_left_click; a press on no item runs nothing.
Button1(x, y) ==
    IF CELL_TAG \in CurrentTags(x, y) THEN _color_cell(x, y, GREY_FILL)
    ELSE IF FIXED_BORDER_TAG \in CurrentTags(x, y) THEN handle_border_left_click(x, y)
    ELSE Return

\* <Button-3>: tag_bind(CELL_TAG) paints white, tag_bind(FIXED_BORDER_TAG)
\* runs handle_border_right_click.
Button3(x, y) ==
    IF CELL_TAG \in CurrentTags(x, y) THEN _color_cell(x, y, FILL_COLOR)
    ELSE IF FIXED_BORDER_TAG \in CurrentTags(x, y) THEN handle_border_right_click(x, y)
    ELSE Return

\* <B1-Motion>, bound on the canvas (and on the cells, to the same handler,
\* which gives the same fills when run twice).
B1Motion(x, y) == _color_cell(x, y, GREY_FILL)

\* <B3-Motion>
B3Motion(x, y) == _color_cell(x, y, FILL_COLOR)

\* --------------------------------------------------------- specification

\* One event is handled to completion before the next.  The button commands
\* are requests that may arrive in any state: the handlers carry their own
\* guards, and those are what is modelled (Tk would not run the command of a
\* button while it is disabled).
Next ==
    \/ start_blue_tile_selection
    \/ start_red_tile_selection
    \/ guarded_save
    \/ \E p \in Pointer : Button1(p[1], p[2])
    \/ \E p \in Pointer : Button3(p[1], p[2])
    \/ \E p \in Pointer : B1Motion(p[1], p[2])
    \/ \E p \in Pointer : B3Motion(p[1], p[2])

Spec == Init /\ [][Next]_vars

\* The session on every grid with pointer events, the scenario grid included.
InitScenario ==
    \E d \in Grids :
        /\ pc = "mainloop"
        /\ prompt = NoPrompt
        /\ dimensions = d
        /\ Window(create_grid_window(d[1], d[2]))

SpecScenario == InitScenario /\ [][Next]_vars

\* ---------------------------------------------------------------- startup

\* No window exists: main has not called create_grid_window (yet).
NoWindow ==
    /\ grid_cols = None
    /\ grid_rows = None
    /\ fill = <<>>
    /\ border_positions = <<>>
    /\ blue_tile_id = None
    /\ red_tile_id = None
    /\ selecting_blue_tile = FALSE
    /\ selecting_red_tile = FALSE
    /\ select_blue_button = ""
    /\ select_red_button = ""
    /\ status = ""
    /\ messagebox = ""
    /\ image = NoImage

\* root.mainloop() starts on the window root.
mainloop(root) ==
    /\ grid_cols' = root.grid_cols
    /\ grid_rows' = root.grid_rows
    /\ fill' = root.fill
    /\ border_positions' = root.border_positions
    /\ blue_tile_id' = root.blue_tile_id
    /\ red_tile_id' = root.red_tile_id
    /\ selecting_blue_tile' = root.selecting_blue_tile
    /\ selecting_red_tile' = root.selecting_red_tile
    /\ select_blue_button' = root.select_blue_button
    /\ select_red_button' = root.select_red_button
    /\ status' = root.status
    /\ messagebox' = ""
    /\ image' = NoImage

\* main, from the return of prompt_for_grid_dimensions: it returns when the
\* dialog was cancelled, and otherwise creates the window and runs its loop.
main ==
    /\ pc = "main"
    /\ IF dimensions = NonePos
       THEN /\ pc' = "exit"
            /\ UNCHANGED <<prompt, dimensions, canvas, fill, session, buttons,
                           status, messagebox, image>>
       ELSE /\ pc' = "mainloop"
            /\ mainloop(create_grid_window(dimensions[1], dimensions[2]))
            /\ UNCHANGED <<prompt, dimensions>>

\* --- prompt_for_grid_dimensions

\* The longest text typed into a field of the setup dialog.
MaxText == 2

\* The characters typed.  A text is a sequence of characters.
Chars == {"0", "1", "5", "-", "+", " ", "a"}

DecimalDigits == <<"0", "1", "2", "3", "4", "5", "6", "7", "8", "9">>

RECURSIVE str(_)
\* str(n) of a natural number: its decimal numeral.
str(n) ==
    IF n < 10 THEN <<DecimalDigits[n + 1]>>
    ELSE Append(str(n \div 10), DecimalDigits[(n % 10) + 1])

RECURSIVE strip(_)
\* str.strip(), which int() applies to its argument.
strip(value) ==
    IF value = <<>> THEN value
    ELSE IF Head(value) = " " THEN strip(Tail(value))
    ELSE IF value[Len(value)] = " " THEN strip(SubSeq(value, 1, Len(value) - 1))
    ELSE value

\* The digits of a stripped text, after its sign if it has one.
UnsignedPart(stripped) ==
    IF stripped # <<>> /\ Head(stripped) \in {"+", "-"} THEN Tail(stripped) ELSE stripped

\* int(value) raises ValueError: after stripping blanks and one sign, the
\* text is empty or holds a character that is no digit.
int_raises(value) ==
    LET digits == UnsignedPart(strip(value))
    IN  \/ digits = <<>>
        \/ \E i \in DOMAIN digits : \A d \in DOMAIN DecimalDigits : digits[i] # DecimalDigits[d]

RECURSIVE Magnitude(_)
Magnitude(digits) ==
    IF digits = <<>> THEN 0
    ELSE 10 * Magnitude(SubSeq(digits, 1, Len(digits) - 1))
         + (CHOOSE d \in 0..9 : DecimalDigits[d + 1] = digits[Len(digits)])

\* int(value), when it does not raise.
int(value) ==
    LET stripped == strip(value)
    IN  IF Head(stripped) = "-" THEN 0 - Magnitude(UnsignedPart(stripped))
        ELSE Magnitude(UnsignedPart(stripped))

\* Faulty variant: the upper end of the range is not looked at.
parse_dimension_no_maximum(value) ==
    IF int_raises(value) THEN None
    ELSE IF int(value) < MIN_DIMENSION THEN None
    ELSE int(value)

parse_dimension(value) ==
    IF int_raises(value) THEN None
    ELSE IF int(value) < MIN_DIMENSION \/ int(value) > MAX_DIMENSION THEN None
    ELSE int(value)

\* Everything of the window, which does not exist while the dialog is open.
window == <<canvas, fill, session, buttons, status, messagebox, image>>

\* A character is typed at the end of the Columns entry, or its last
\* character is erased; the entry writes its text to cols_var.
type_cols(ch) ==
    /\ pc = "prompt"
    /\ Len(prompt.cols_var) < MaxText
    /\ prompt' = [prompt EXCEPT !.cols_var = Append(@, ch)]
    /\ UNCHANGED <<pc, dimensions, window>>

erase_cols ==
    /\ pc = "prompt"
    /\ prompt.cols_var # <<>>
    /\ prompt' = [prompt EXCEPT !.cols_var = SubSeq(@, 1, Len(@) - 1)]
    /\ UNCHANGED <<pc, dimensions, window>>

type_rows(ch) ==
    /\ pc = "prompt"
    /\ Len(prompt.rows_var) < MaxText
    /\ prompt' = [prompt EXCEPT !.rows_var = Append(@, ch)]
    /\ UNCHANGED <<pc, dimensions, window>>

erase_rows ==
    /\ pc = "prompt"
    /\ prompt.rows_var # <<>>
    /\ prompt' = [prompt EXCEPT !.rows_var = SubSeq(@, 1, Len(@) - 1)]
    /\ UNCHANGED <<pc, dimensions, window>>

\* The confirm button and <Return>.
on_confirm ==
    /\ pc = "prompt"
    /\ LET cols_value == parse_dimension(prompt.cols_var)
           rows_value == parse_dimension(prompt.rows_var)
       IN  IF cols_value = None \/ rows_value = None
           THEN /\ prompt' = [prompt EXCEPT !.error_var = "please re-enter valid number"]
                /\ UNCHANGED <<pc, dimensions, window>>
           ELSE /\ dimensions' = <<cols_value, rows_value>>
                /\ prompt' = NoPrompt
                /\ pc' = "main"
                /\ UNCHANGED window

\* Faulty variant: closing the dialog hands the default dimensions on.
on_close_with_defaults ==
    /\ pc = "prompt"
    /\ dimensions' = <<DEFAULT_COLS, DEFAULT_ROWS>>
    /\ prompt' = NoPrompt
    /\ pc' = "main"
    /\ UNCHANGED window

\* WM_DELETE_WINDOW
on_close ==
    /\ pc = "prompt"
    /\ dimensions' = NonePos
    /\ prompt' = NoPrompt
    /\ pc' = "main"
    /\ UNCHANGED window

\* The program starts: main opens the setup dialog with the default texts.
InitStartup ==
    /\ pc = "prompt"
    /\ prompt = [cols_var |-> str(DEFAULT_COLS), rows_var |-> str(DEFAULT_ROWS),
                 error_var |-> ""]
    /\ dimensions = NonePos
    /\ NoWindow

\* The dialog's events, main, and then the events of the window.
NextStartup ==
    \/ \E ch \in Chars : type_cols(ch)
    \/ erase_cols
    \/ \E ch \in Chars : type_rows(ch)
    \/ erase_rows
    \/ on_confirm
    \/ on_close
    \/ main
    \/ pc = "mainloop" /\ Next

SpecStartup == InitStartup /\ [][NextStartup]_vars

\* --- create_grid_window called with arbitrary integers

\* The largest in-range argument tried, besides MAX_DIMENSION.
MaxNew == 3

\* The arguments tried: around the lower end of the range and at its upper end.
NewArguments == (-2..MaxNew) \cup {MAX_DIMENSION, MAX_DIMENSION + 1}

\* A caller is about to run create_grid_window(cols, rows) and the main loop.
InitNew ==
    /\ pc = "main"
    /\ prompt = NoPrompt
    /\ dimensions \in NewArguments \X NewArguments
    /\ NoWindow

NextNew == main

SpecNew == InitNew /\ [][NextNew]_vars

\* ================================================================ claims

\* The controller's states.
Idle == ~selecting_blue_tile /\ ~selecting_red_tile
SelectingPlayerMarker == selecting_blue_tile /\ ~selecting_red_tile
SelectingDroneMarker == selecting_red_tile /\ ~selecting_blue_tile

BorderIds == DOMAIN border_positions
CellIds == DOMAIN fill \ BorderIds

\* The states of the interior cells, and the fills of the border slots.
CellStates == [id \in CellIds |-> fill[id]]
SlotStates == [id \in BorderIds |-> fill[id]]

Manhattan(a, b) ==
    (IF a[1] < b[1] THEN b[1] - a[1] ELSE a[1] - b[1])
    + (IF a[2] < b[2] THEN b[2] - a[2] ELSE a[2] - b[2])

\* The item a press at the pixel is delivered to: the topmost one under it.
Topmost(x, y) ==
    LET overlap == find_overlapping(x, y)
        under == {overlap[i] : i \in DOMAIN overlap}
    IN  IF under = {} THEN None ELSE CHOOSE id \in under : \A other \in under : other <= id

\* The press at the pixel is on border slot S / on an interior cell.
OnSlot(x, y, S) == S \in BorderIds /\ Topmost(x, y) = S
OnCell(x, y) == Topmost(x, y) \in CellIds
OnBorder(x, y) == Topmost(x, y) \in BorderIds

\* Slot S is at distance 1 from the slot of the marker held by other_id.
NextTo(S, other_id) ==
    other_id # None /\ Manhattan(border_positions[S], border_positions[other_id]) = 1

\* ---------------------------------------------------------------- C1
\* C1: whenever both the player (blue) and the drone (red) marker are
\* assigned, the Manhattan distance between their border positions is at
\* least 2, in every state any sequence of events reaches.
C1_MarkersApart ==
    (blue_tile_id # None /\ red_tile_id # None)
        => Manhattan(border_positions[blue_tile_id], border_positions[red_tile_id]) >= 2

\* Both markers are placed, as close as the rule allows.
C1_Witness ==
    /\ blue_tile_id # None /\ red_tile_id # None
    /\ Manhattan(border_positions[blue_tile_id], border_positions[red_tile_id]) = 2

\* ---------------------------------------------------------------- C2
\* The slots shown as PlayerMarker are the player's slot alone, or none when
\* the player is unassigned; likewise for the drone.
AtMostOneSlotPerMarker ==
    /\ {id \in BorderIds : fill[id] = BLUE_TILE_FILL}
           = (IF blue_tile_id = None THEN {} ELSE {blue_tile_id})
    /\ {id \in BorderIds : fill[id] = RED_TILE_FILL}
           = (IF red_tile_id = None THEN {} ELSE {red_tile_id})

\* A step that moves a marker from slot A to another slot B leaves A plain
\* and B holding the marker.
AtomicReplace ==
    /\ (blue_tile_id # None /\ blue_tile_id' # None /\ blue_tile_id' # blue_tile_id)
           => /\ fill'[blue_tile_id] = FIXED_BORDER_FILL
              /\ fill'[blue_tile_id'] = BLUE_TILE_FILL
    /\ (red_tile_id # None /\ red_tile_id' # None /\ red_tile_id' # red_tile_id)
           => /\ fill'[red_tile_id] = FIXED_BORDER_FILL
              /\ fill'[red_tile_id'] = RED_TILE_FILL

\* C2: at most one border slot holds the player marker and at most one the
\* drone marker in every state, and reassigning a marker from slot A to slot B
\* is one step that leaves A plain and B holding the marker.
C2_SingleSlotAtomicReplace == []AtMostOneSlotPerMarker /\ [][AtomicReplace]_vars

\* Both markers are shown on the border, the blue one placed last.
C2_Witness ==
    /\ Cardinality({id \in BorderIds : fill[id] = BLUE_TILE_FILL}) = 1
    /\ Cardinality({id \in BorderIds : fill[id] = RED_TILE_FILL}) = 1
    /\ status = "Blue tile placed."

\* ---------------------------------------------------------------- C3
\* What a refused overlapping placement leaves: the status line says so, no
\* fill and no session attribute changes.
OverlapRejected ==
    /\ status' = IF selecting_blue_tile
                 THEN "Blue tile location unavailable; overlaps red tile."
                 ELSE "Red tile location unavailable; overlaps blue tile."
    /\ messagebox' = IF selecting_blue_tile THEN "Blue Tile" ELSE "Red Tile"
    /\ UNCHANGED <<fill, session>>

\* While selecting, the primary click on the pixel is on the other marker's slot.
OverlapClick(x, y) ==
    \/ SelectingPlayerMarker /\ OnSlot(x, y, red_tile_id)
    \/ SelectingDroneMarker /\ OnSlot(x, y, blue_tile_id)

\* C3: the player and the drone marker are never assigned to the same border
\* slot, and while selecting one marker every primary click on the slot that
\* holds the other marker is rejected as an overlap and assigns nothing.
C3_NeverSameSlot ==
    /\ blue_tile_id # None => blue_tile_id # red_tile_id
    /\ \A p \in Pointer :
           OverlapClick(p[1], p[2])
               => ~ENABLED (Button1(p[1], p[2]) /\ ~OverlapRejected)

\* An overlapping placement of the blue tile has just been refused.
C3_Witness ==
    /\ status = "Blue tile location unavailable; overlaps red tile."
    /\ messagebox = "Blue Tile"
    /\ SelectingPlayerMarker /\ red_tile_id # None /\ blue_tile_id # None

\* ---------------------------------------------------------------- C4
\* While selecting, the primary click on the pixel is on a slot at distance 1
\* from the other marker's slot.
AdjacentClick(x, y) ==
    /\ OnBorder(x, y)
    /\ \/ SelectingPlayerMarker /\ NextTo(Topmost(x, y), red_tile_id)
       \/ SelectingDroneMarker /\ NextTo(Topmost(x, y), blue_tile_id)

AdjacentRejected ==
    /\ status' = IF selecting_blue_tile
                 THEN "Blue tile must not touch the red tile."
                 ELSE "Red tile must not touch the blue tile."
    /\ messagebox' = IF selecting_blue_tile THEN "Blue Tile" ELSE "Red Tile"

\* C4: while selecting marker X, a primary click on a slot at distance 1 from
\* the other marker is rejected as adjacent, and one on the other marker's slot
\* as an overlap; after either the controller is in the same selecting state,
\* X keeps its slot (or stays unassigned), and the other marker, every border
\* slot and every interior cell are as before.
C4_RejectionChangesNothing ==
    \A p \in Pointer :
        /\ AdjacentClick(p[1], p[2])
               => ~ENABLED (Button1(p[1], p[2])
                            /\ ~(AdjacentRejected /\ UNCHANGED <<canvas, fill, session>>))
        /\ OverlapClick(p[1], p[2])
               => ~ENABLED (Button1(p[1], p[2])
                            /\ ~(OverlapRejected /\ UNCHANGED <<canvas, fill, session>>))

\* A placement of the red tile next to the blue one has just been refused,
\* with cells painted before it.
C4_Witness ==
    /\ status = "Red tile must not touch the blue tile."
    /\ messagebox = "Red Tile"
    /\ SelectingDroneMarker /\ blue_tile_id # None
    /\ \E id \in CellIds : fill[id] = GREY_FILL

\* ---------------------------------------------------------------- C5
\* While selecting, the primary click on the pixel is on slot S, which is
\* neither the other marker's slot nor at distance 1 from it.
LegalClick(x, y, S) ==
    /\ OnSlot(x, y, S)
    /\ \/ SelectingPlayerMarker /\ S # red_tile_id /\ ~NextTo(S, red_tile_id)
       \/ SelectingDroneMarker /\ S # blue_tile_id /\ ~NextTo(S, blue_tile_id)

\* The fills after the marker kept in old_id moved to S with the colour.
Moved(old_id, S, colour) ==
    LET vacated == IF old_id = None THEN fill ELSE [fill EXCEPT ![old_id] = FIXED_BORDER_FILL]
    IN  [vacated EXCEPT ![S] = colour]

\* S became the slot of the marker being selected and nothing else changed.
Accepted(S) ==
    /\ ~selecting_blue_tile' /\ ~selecting_red_tile'
    /\ IF selecting_blue_tile
       THEN /\ blue_tile_id' = S
            /\ red_tile_id' = red_tile_id
            /\ fill' = Moved(blue_tile_id, S, BLUE_TILE_FILL)
       ELSE /\ red_tile_id' = S
            /\ blue_tile_id' = blue_tile_id
            /\ fill' = Moved(red_tile_id, S, RED_TILE_FILL)

\* C5: while selecting marker X, a primary click on any border slot S that is
\* not the other marker's slot and not at distance 1 from it is accepted: S
\* becomes X's slot, the controller is Idle, and the other marker and all
\* interior cells are unchanged.  This covers an unassigned other marker, S
\* being X's current slot and S next to X's previous slot.
C5_LegalPlacementAccepted ==
    (SelectingPlayerMarker \/ SelectingDroneMarker) =>
        \A p \in Pointer :
            LET S == Topmost(p[1], p[2])
            IN  LegalClick(p[1], p[2], S) => ~ENABLED (Button1(p[1], p[2]) /\ ~Accepted(S))

\* The red tile has been placed while the blue one was in place.
C5_Witness ==
    /\ status = "Red tile placed."
    /\ Idle /\ red_tile_id # None /\ blue_tile_id # None
    /\ fill[red_tile_id] = RED_TILE_FILL

\* ---------------------------------------------------------------- C6
\* C6: selecting_blue_tile and selecting_red_tile are never both true; a
\* start-player-selection request in SelectingDroneMarker only sets the status
\* line (controller, markers and cells stay), and so does a
\* start-drone-selection request in SelectingPlayerMarker.
C6_SelectionModesExclusive ==
    /\ ~(selecting_blue_tile /\ selecting_red_tile)
    /\ SelectingDroneMarker
           => ~ENABLED (start_blue_tile_selection
                        /\ ~(/\ UNCHANGED <<canvas, fill, session>>
                             /\ status' = "Finish placing the red tile before choosing the blue tile."))
    /\ SelectingPlayerMarker
           => ~ENABLED (start_red_tile_selection
                        /\ ~(/\ UNCHANGED <<canvas, fill, session>>
                             /\ status' = "Finish placing the blue tile before choosing the red tile."))

\* A start-player-selection request has been turned down in SelectingDroneMarker.
C6_Witness ==
    /\ SelectingDroneMarker
    /\ status = "Finish placing the red tile before choosing the blue tile."

\* ---------------------------------------------------------------- C7
\* What a secondary click on slot S leaves, while selecting.
SecondaryOutcome(S) ==
    LET own == IF selecting_blue_tile THEN blue_tile_id ELSE red_tile_id
    IN  IF S = own
        THEN \* the marker is cleared, the controller is Idle
             /\ fill' = [fill EXCEPT ![S] = FIXED_BORDER_FILL]
             /\ IF selecting_blue_tile
                THEN blue_tile_id' = None /\ red_tile_id' = red_tile_id
                ELSE red_tile_id' = None /\ blue_tile_id' = blue_tile_id
             /\ ~selecting_blue_tile' /\ ~selecting_red_tile'
        ELSE IF own = None
        THEN \* the selection is cancelled, nothing on the grid changes
             /\ UNCHANGED <<fill, blue_tile_id, red_tile_id>>
             /\ ~selecting_blue_tile' /\ ~selecting_red_tile'
        ELSE \* the marker is elsewhere: no-op
             UNCHANGED <<fill, session>>

\* C7: in SelectingPlayerMarker a secondary click on border slot S clears the
\* player marker and goes to Idle when S is the player's slot, goes to Idle
\* without touching the grid when no player slot is assigned, and otherwise
\* changes nothing; the drone marker never changes.  The same holds for
\* SelectingDroneMarker with the markers exchanged.
C7_SecondaryClickOutcomes ==
    (SelectingPlayerMarker \/ SelectingDroneMarker) =>
        \A p \in Pointer :
            LET S == Topmost(p[1], p[2])
            IN  OnSlot(p[1], p[2], S)
                    => ~ENABLED (Button3(p[1], p[2]) /\ ~SecondaryOutcome(S))

\* The blue tile has been cleared while the red one stays in place.
C7_Witness ==
    /\ status = "Blue tile cleared."
    /\ Idle /\ blue_tile_id = None /\ red_tile_id # None
    /\ fill[red_tile_id] = RED_TILE_FILL

\* ---------------------------------------------------------------- C8
\* The interior cells under the pixel.
CellsUnder(x, y) ==
    LET overlap == find_overlapping(x, y)
    IN  {overlap[i] : i \in DOMAIN overlap} \cap CellIds

\* C8: in SelectingPlayerMarker and in SelectingDroneMarker, a primary or
\* secondary click on an interior cell and a primary or secondary drag over an
\* interior cell leave every interior cell, both markers and the controller
\* state unchanged.
C8_PaintSuppressedWhileSelecting ==
    (SelectingPlayerMarker \/ SelectingDroneMarker) =>
        \A p \in Pointer :
            /\ OnCell(p[1], p[2])
                   => /\ ~ENABLED (Button1(p[1], p[2]) /\ ~UNCHANGED <<canvas, fill, session>>)
                      /\ ~ENABLED (Button3(p[1], p[2]) /\ ~UNCHANGED <<canvas, fill, session>>)
            /\ CellsUnder(p[1], p[2]) # {}
                   => /\ ~ENABLED (B1Motion(p[1], p[2]) /\ ~UNCHANGED <<canvas, fill, session>>)
                      /\ ~ENABLED (B3Motion(p[1], p[2]) /\ ~UNCHANGED <<canvas, fill, session>>)

\* A selecting state in which both a paint and an erase would show: some cell
\* is white and some cell is grey.
C8_Witness ==
    /\ SelectingPlayerMarker
    /\ \E id \in CellIds : fill[id] = GREY_FILL
    /\ \E id \in CellIds : fill[id] = FILL_COLOR

\* ---------------------------------------------------------------- C9
\* What pressing Save leaves: a blocked save when a marker is missing, the
\* exporter's report otherwise; cells, markers and controller as before.
SaveOutcome ==
    /\ UNCHANGED <<canvas, fill, session, status>>
    /\ IF blue_tile_id = None \/ red_tile_id = None
       THEN messagebox' = "Save Blocked"
       ELSE messagebox' \in {"Saved", "Save Failed"}

\* C9: pressing Save runs the snapshot exporter exactly when both markers are
\* assigned; with a marker missing the save is blocked, no file is written,
\* and cells, markers and controller state are unchanged.
C9_SaveNeedsBothMarkers ==
    /\ ~ENABLED (guarded_save /\ ~SaveOutcome)
    /\ (blue_tile_id # None /\ red_tile_id # None)
           <=> ENABLED (guarded_save /\ messagebox' = "Saved")

\* A save has been blocked with the player marker placed and the drone marker
\* missing.
C9_Witness ==
    /\ messagebox = "Save Blocked"
    /\ blue_tile_id # None /\ red_tile_id = None

\* ---------------------------------------------------------------- C10
\* The cell a paint at the pixel is aimed at.  Inside a cell it is that cell;
\* on a line shared by two cells it is the one created first.
TargetCell(x, y) ==
    CHOOSE id \in CellsUnder(x, y) : \A other \in CellsUnder(x, y) : id <= other

\* The target cell got the colour; no other cell, no border slot, no marker
\* and not the controller changed.
Painted(x, y, colour) ==
    /\ fill' = [id \in DOMAIN fill |-> IF id = TargetCell(x, y) THEN colour ELSE fill[id]]
    /\ UNCHANGED <<canvas, session>>

\* C10: in Idle a primary click or drag over an interior cell sets that cell
\* to Blocked (grey) and a secondary click or drag sets it to Open (white),
\* whatever it was; every other interior cell, every border slot, both
\* markers and the controller state are unchanged.
C10_IdlePaint ==
    Idle =>
        \A p \in Pointer :
            /\ OnCell(p[1], p[2])
                   => /\ ~ENABLED (Button1(p[1], p[2]) /\ ~Painted(p[1], p[2], GREY_FILL))
                      /\ ~ENABLED (Button3(p[1], p[2]) /\ ~Painted(p[1], p[2], FILL_COLOR))
            /\ CellsUnder(p[1], p[2]) # {}
                   => /\ ~ENABLED (B1Motion(p[1], p[2]) /\ ~Painted(p[1], p[2], GREY_FILL))
                      /\ ~ENABLED (B3Motion(p[1], p[2]) /\ ~Painted(p[1], p[2], FILL_COLOR))

\* Idle with both markers placed, one cell painted and one cell open.
C10_Witness ==
    /\ Idle /\ blue_tile_id # None /\ red_tile_id # None
    /\ \E id \in CellIds : fill[id] = GREY_FILL
    /\ \E id \in CellIds : fill[id] = FILL_COLOR

\* ---------------------------------------------------------------- C11
\* The arguments of the construction are both within 1..50.
ValidDimensions ==
    /\ dimensions # NonePos
    /\ dimensions[1] \in 1..50
    /\ dimensions[2] \in 1..50

\* C11: grid construction with cols or rows outside 1..50 fails with
\* InvalidDimension: no window comes to exist, and no cell and no border slot
\* is constructed.
C11_InvalidDimensionFails ==
    (dimensions # NonePos /\ ~ValidDimensions)
        => /\ pc # "mainloop"
           /\ fill = <<>>
           /\ border_positions = <<>>

\* ---------------------------------------------------------------- C12
\* The grid position of a cell, read back from the pixel rectangle of its
\* canvas item (20 pixel squares, the interior starting 30 pixels in).
CellPosition(id) ==
    LET coords == CanvasItems(grid_cols, grid_rows)[id].coords
    IN  <<(coords[1] - 30) \div 20, (coords[2] - 30) \div 20>>

InteriorPositions == (0..(grid_cols - 1)) \X (0..(grid_rows - 1))

\* The ring: rows -1 and rows over columns -1..cols, columns -1 and cols over
\* rows 0..rows-1.
Ring ==
    ((-1..grid_cols) \X {-1, grid_rows}) \cup ({-1, grid_cols} \X (0..(grid_rows - 1)))

\* C12: for cols and rows in 1..50 the construction yields cols*rows interior
\* cells, all Open, at the positions {0..cols-1} x {0..rows-1}, and
\* 2*(cols+2) + 2*rows border slots, all Plain, whose recorded positions are
\* pairwise distinct, disjoint from the interior positions, and form the ring
\* with each corner once.
C12_ConstructionCardinality ==
    (pc = "mainloop" /\ ValidDimensions) =>
        /\ grid_cols = dimensions[1] /\ grid_rows = dimensions[2]
        /\ Cardinality(CellIds) = grid_cols * grid_rows
        /\ \A id \in CellIds : fill[id] = "white"
        /\ {CellPosition(id) : id \in CellIds} = InteriorPositions
        /\ Cardinality(BorderIds) = 2 * (grid_cols + 2) + 2 * grid_rows
        /\ \A id \in BorderIds : fill[id] = "black"
        /\ \A a, b \in BorderIds : border_positions[a] = border_positions[b] => a = b
        /\ {border_positions[id] : id \in BorderIds} = Ring
        /\ {border_positions[id] : id \in BorderIds} \cap InteriorPositions = {}

\* The largest grid with the fewest rows tried has been constructed.
C12_Witness ==
    /\ pc = "mainloop"
    /\ grid_cols = 50 /\ grid_rows = 1
    /\ Cardinality(BorderIds) = 106
    /\ Cardinality(CellIds) = 50

\* ---------------------------------------------------------------- C13
\* The ways of writing an integer of 1..50 that fit a field: blanks, an
\* optional plus sign, leading zeros, the decimal numeral, blanks.  Each is a
\* pair <<text, integer>>.
Blanks(k) == [i \in 1..k |-> " "]
Zeros(k) == [i \in 1..k |-> "0"]
Spellings ==
    {p \in {<<Blanks(a) \o sign \o Zeros(z) \o str(n) \o Blanks(b), n>> :
                a \in 0..MaxText, sign \in {<<>>, <<"+">>}, z \in 0..MaxText,
                n \in 1..50, b \in 0..MaxText} :
        Len(p[1]) <= MaxText}
InRange(text) == \E p \in Spellings : p[1] = text
ValueOf(text) == (CHOOSE p \in Spellings : p[1] = text)[2]

\* C13: while the setup dialog is open a confirm is always handled.  If a
\* field is not parseable as an integer or is outside 1..50, the confirm
\* yields no pair, reports the error and leaves the dialog open with its
\* texts; otherwise, and only then, it yields the pair (cols, rows) of the
\* integers the fields denote.
C13_ValidatorRejectsOrYieldsPair ==
    pc = "prompt" =>
        /\ ENABLED on_confirm
        /\ IF InRange(prompt.cols_var) /\ InRange(prompt.rows_var)
           THEN ~ENABLED (on_confirm /\
                    ~(/\ dimensions' = <<ValueOf(prompt.cols_var), ValueOf(prompt.rows_var)>>
                      /\ prompt' = NoPrompt
                      /\ pc' = "main"))
           ELSE ~ENABLED (on_confirm /\
                    ~(/\ dimensions' = NonePos
                      /\ dimensions = NonePos
                      /\ pc' = "prompt"
                      /\ prompt'.error_var = "please re-enter valid number"
                      /\ prompt'.cols_var = prompt.cols_var
                      /\ prompt'.rows_var = prompt.rows_var))

\* A confirm of 51 columns with a valid number of rows was rejected, and the
\* dialog is still open.
C13_Witness ==
    /\ pc = "prompt"
    /\ prompt.error_var = "please re-enter valid number"
    /\ prompt.cols_var = <<"5", "1">>
    /\ InRange(prompt.rows_var)
    /\ dimensions = NonePos

\* ---------------------------------------------------------------- C14
\* A grid window exists.
GridExists == grid_cols # None \/ fill # <<>> \/ border_positions # <<>>

\* C14: a grid window exists only once the setup dialog has confirmed a pair
\* and is gone; its cols and rows are that pair, lie in 1..50 and are changed
\* by no later step.  Closing the dialog, whatever was confirmed and rejected
\* before, hands main no pair, and main then ends the program with no grid
\* window, for good.
C14_StartupOrdering ==
    /\ GridExists =>
            /\ pc = "mainloop"
            /\ prompt = NoPrompt
            /\ ValidDimensions
            /\ grid_cols = dimensions[1] /\ grid_rows = dimensions[2]
    /\ pc = "mainloop" =>
            ~ENABLED (NextStartup /\
                ~(pc' = "mainloop" /\ UNCHANGED <<grid_cols, grid_rows, dimensions>>))
    /\ pc = "prompt" =>
            /\ ENABLED on_close
            /\ ~ENABLED (on_close /\ ~(dimensions' = NonePos /\ pc' = "main" /\ ~GridExists'))
    /\ (pc = "main" /\ dimensions = NonePos) =>
            ~ENABLED (NextStartup /\ ~(pc' = "exit" /\ ~GridExists'))
    /\ pc = "exit" => ~GridExists /\ dimensions = NonePos /\ ~ENABLED NextStartup

\* The dialog was closed and the program has ended without a window.
C14_Witness == pc = "exit" /\ ~GridExists /\ prompt = NoPrompt

\* ---------------------------------------------------------------- C15
\* On the 1 x 1 grid the player marker is at (-1,0), the drone marker is
\* unassigned and the controller is selecting the drone marker.
Scenario1x1 ==
    /\ grid_cols = 1 /\ grid_rows = 1
    /\ blue_tile_id # None
    /\ border_positions[blue_tile_id] = <<-1, 0>>
    /\ red_tile_id = None
    /\ SelectingDroneMarker

\* The press at the pixel is on the square at the grid position.
OnPosition(x, y, pos) ==
    LET T == Topmost(x, y)
    IN  \/ T \in BorderIds /\ border_positions[T] = pos
        \/ T \in CellIds /\ CellPosition(T) = pos

\* C15 as stated: in the scenario a drone attempt at (0,0) is rejected as
\* adjacent, and the drone stays unassigned.
C15_AttemptAtOriginRejected ==
    Scenario1x1 =>
        \A p \in Pointer :
            OnPosition(p[1], p[2], <<0, 0>>)
                => ~ENABLED (Button1(p[1], p[2]) /\ ~(AdjacentRejected /\ red_tile_id' = None))

\* C15, amended: on the 1 x 1 grid (0,0) is the interior cell and no border
\* slot.  In the scenario a drone attempt there changes nothing at all, not
\* even the status line; a drone attempt on a border slot at distance 1 from
\* (-1,0), which are (-1,-1) and (-1,1), is rejected as adjacent.  Either way
\* the drone stays unassigned, and an export attempt is blocked.
C15_Scenario1x1 ==
    Scenario1x1 =>
        /\ \A id \in BorderIds : border_positions[id] # <<0, 0>>
        /\ \A p \in Pointer :
               /\ OnPosition(p[1], p[2], <<0, 0>>)
                      => ~ENABLED (Button1(p[1], p[2])
                                   /\ ~UNCHANGED <<canvas, fill, session, status>>)
               /\ (OnPosition(p[1], p[2], <<-1, -1>>) \/ OnPosition(p[1], p[2], <<-1, 1>>))
                      => ~ENABLED (Button1(p[1], p[2])
                                   /\ ~(AdjacentRejected /\ UNCHANGED <<canvas, fill, session>>))
        /\ ~ENABLED (guarded_save
                     /\ ~(messagebox' = "Save Blocked"
                          /\ UNCHANGED <<canvas, fill, session, status>>))

\* In the scenario a drone attempt next to the player marker was rejected and
\* the export attempt after it was blocked.
C15_Witness ==
    /\ Scenario1x1
    /\ status = "Red tile must not touch the blue tile."
    /\ messagebox = "Save Blocked"

\* ---------------------------------------------------------------- C16
\* C16: in every reachable state each interior cell (an item with the cell
\* tag) is Open (white) or Blocked (grey), and each border slot (an item with
\* the border tag) is Plain (black), PlayerMarker (blue) or DroneMarker (red),
\* whatever clicks and drags were applied, on cells, on border slots and on
\* the lines they share.
C16_KindsNeverMix ==
    /\ \A id \in DOMAIN fill : (gettags(id) = {"cell"}) <=> (id \in CellIds)
    /\ \A id \in DOMAIN fill : (gettags(id) = {"fixed-border"}) <=> (id \in BorderIds)
    /\ \A id \in CellIds : fill[id] \in {"white", "#808080"}
    /\ \A id \in BorderIds : fill[id] \in {"black", "#1e90ff", "#ff4040"}

\* Every kind is on show at once: a blocked and an open cell, a plain slot
\* and both markers.
C16_Witness ==
    /\ \E id \in CellIds : fill[id] = "#808080"
    /\ \E id \in CellIds : fill[id] = "white"
    /\ \E id \in BorderIds : fill[id] = "black"
    /\ \E id \in BorderIds : fill[id] = "#1e90ff"
    /\ \E id \in BorderIds : fill[id] = "#ff4040"

\* ---------------------------------------------------------------- C17
\* C17: the snapshot export always returns, with a path (the image written)
\* or with a failure value (no image), and both can happen in every state;
\* whichever it is, every interior cell, every border slot, both markers, the
\* controller state, the buttons and the status line are as before.
C17_ExportLeavesSession ==
    /\ ENABLED (save_canvas_snapshot /\ messagebox' = "Saved")
    /\ ENABLED (save_canvas_snapshot /\ messagebox' = "Save Failed")
    /\ ~ENABLED (save_canvas_snapshot
                 /\ ~(/\ UNCHANGED <<canvas, fill, session, buttons, status>>
                      /\ \/ messagebox' = "Saved" /\ image' # NoImage
                         \/ messagebox' = "Save Failed" /\ image' = NoImage))

\* An export has failed while the blue tile was being moved, with both markers
\* placed and a cell painted.
C17_Witness ==
    /\ messagebox = "Save Failed"
    /\ SelectingPlayerMarker
    /\ blue_tile_id # None /\ red_tile_id # None
    /\ \E id \in CellIds : fill[id] = "#808080"

\* ---------------------------------------------------------------- C18
\* Cells, border slots, markers, controller, buttons and status line.
WholeState == <<canvas, fill, session, buttons, status>>

\* In Idle, painting a cell the colour it already has changes nothing.
RepaintChangesNothing ==
    Idle =>
        \A p \in Pointer :
            /\ (OnCell(p[1], p[2]) /\ fill[TargetCell(p[1], p[2])] = GREY_FILL)
                   => ~ENABLED (Button1(p[1], p[2]) /\ ~UNCHANGED WholeState)
            /\ (OnCell(p[1], p[2]) /\ fill[TargetCell(p[1], p[2])] = FILL_COLOR)
                   => ~ENABLED (Button3(p[1], p[2]) /\ ~UNCHANGED WholeState)
            /\ (CellsUnder(p[1], p[2]) # {} /\ fill[TargetCell(p[1], p[2])] = GREY_FILL)
                   => ~ENABLED (B1Motion(p[1], p[2]) /\ ~UNCHANGED WholeState)
            /\ (CellsUnder(p[1], p[2]) # {} /\ fill[TargetCell(p[1], p[2])] = FILL_COLOR)
                   => ~ENABLED (B3Motion(p[1], p[2]) /\ ~UNCHANGED WholeState)

\* While selecting, the marker being selected is unassigned.
OwnMarkerUnassigned ==
    \/ SelectingPlayerMarker /\ blue_tile_id = None
    \/ SelectingDroneMarker /\ red_tile_id = None

\* C18 as stated: in Idle a repaint with the same colour leaves the whole
\* state unchanged, and the clearing click (secondary click on a border slot
\* while selecting) for a marker that is unassigned leaves the state, the
\* controller's included, unchanged.
C18_IdempotentAsStated ==
    /\ RepaintChangesNothing
    /\ OwnMarkerUnassigned =>
           \A p \in Pointer :
               OnBorder(p[1], p[2])
                   => ~ENABLED (Button3(p[1], p[2]) /\ ~UNCHANGED <<canvas, fill, session>>)

\* The selection was cancelled: cells, border slots and markers are as
\* before, the controller is Idle, both buttons are enabled again.
SelectionCancelled ==
    /\ UNCHANGED <<canvas, fill, blue_tile_id, red_tile_id>>
    /\ ~selecting_blue_tile' /\ ~selecting_red_tile'
    /\ select_blue_button' = "normal" /\ select_red_button' = "normal"
    /\ status' = IF selecting_blue_tile THEN "Blue tile selection cancelled."
                 ELSE "Red tile selection cancelled."

\* C18, amended: in Idle a repaint with the same colour leaves the whole
\* state unchanged.  The clearing helper, applied to an unassigned marker
\* without naming a slot, changes no fill and no marker.  The clearing click
\* for an unassigned marker leaves every cell, every border slot and both
\* markers unchanged, but it is no no-op on the controller: it cancels the
\* selection, so the controller goes to Idle.
C18_Idempotent ==
    /\ RepaintChangesNothing
    /\ blue_tile_id = None
           => _clear_blue_tile_fill(None) = fill /\ _clear_blue_tile_id(None) = None
    /\ red_tile_id = None
           => _clear_red_tile_fill(None) = fill /\ _clear_red_tile_id(None) = None
    /\ OwnMarkerUnassigned =>
           \A p \in Pointer :
               OnBorder(p[1], p[2])
                   => ~ENABLED (Button3(p[1], p[2]) /\ ~SelectionCancelled)

\* A selection of the unassigned blue tile has been cancelled by a clearing
\* click, with a blocked and an open cell on the grid to repaint.
C18_Witness ==
    /\ Idle /\ blue_tile_id = None
    /\ status = "Blue tile selection cancelled."
    /\ \E id \in CellIds : fill[id] = GREY_FILL
    /\ \E id \in CellIds : fill[id] = FILL_COLOR

\* ---------------------------------------------------------------- C19
\* The marker is assigned at the grid position.
PlayerAt(pos) == blue_tile_id # None /\ border_positions[blue_tile_id] = pos
DroneAt(pos) == red_tile_id # None /\ border_positions[red_tile_id] = pos

\* C19: on the 3 x 2 grid, with the drone unassigned a player attempt at
\* (0,-1) is accepted; with the player at (0,-1) a drone attempt at (2,2), at
\* distance 5, is accepted; with both in place the export is not blocked and
\* an export that succeeds writes a raster of 120 x 100 pixels.  On every
\* grid a written raster is cols*20+60 pixels wide and rows*20+60 high.
C19_Scenario3x2 ==
    /\ (grid_cols = 3 /\ grid_rows = 2) =>
           /\ Manhattan(<<0, -1>>, <<2, 2>>) = 5
           /\ (SelectingPlayerMarker /\ red_tile_id = None) =>
                  \A p \in Pointer :
                      OnPosition(p[1], p[2], <<0, -1>>)
                          => ~ENABLED (Button1(p[1], p[2])
                                       /\ ~(Accepted(Topmost(p[1], p[2])) /\ PlayerAt(<<0, -1>>)'))
           /\ (SelectingDroneMarker /\ PlayerAt(<<0, -1>>)) =>
                  \A p \in Pointer :
                      OnPosition(p[1], p[2], <<2, 2>>)
                          => ~ENABLED (Button1(p[1], p[2])
                                       /\ ~(Accepted(Topmost(p[1], p[2])) /\ DroneAt(<<2, 2>>)'))
           /\ (PlayerAt(<<0, -1>>) /\ DroneAt(<<2, 2>>)) =>
                  /\ ~ENABLED (guarded_save /\ messagebox' = "Save Blocked")
                  /\ ENABLED (guarded_save /\ messagebox' = "Saved")
                  /\ ~ENABLED (guarded_save /\ messagebox' = "Saved" /\ image' # <<120, 100>>)
    /\ ~ENABLED (guarded_save /\ messagebox' = "Saved"
                 /\ image' # <<grid_cols * 20 + 60, grid_rows * 20 + 60>>)
    /\ image # NoImage => image = <<grid_cols * 20 + 60, grid_rows * 20 + 60>>

\* The scenario has run to its end: both markers are where it puts them and
\* the export has written its raster.
C19_Witness ==
    /\ grid_cols = 3 /\ grid_rows = 2
    /\ PlayerAt(<<0, -1>>) /\ DroneAt(<<2, 2>>)
    /\ Idle
    /\ messagebox = "Saved"
    /\ image = <<120, 100>>

\* ---------------------------------------------------------------- C20
\* The save guard passes: pressing Save gets to the exporter.
SaveGuardPasses == ENABLED (guarded_save /\ messagebox' # "Save Blocked")

\* C20: in every reachable state a border slot is filled blue exactly when it
\* is the slot recorded in blue_tile_id, red exactly when it is the slot
\* recorded in red_tile_id, and black otherwise; the recorded ids are border
\* slots; and whenever the save guard passes, exactly one border slot is blue
\* and exactly one is red.
C20_IdsAndFillsAgree ==
    /\ \A id \in BorderIds :
           /\ fill[id] = "#1e90ff" <=> id = blue_tile_id
           /\ fill[id] = "#ff4040" <=> id = red_tile_id
           /\ fill[id] = "black" <=> (id # blue_tile_id /\ id # red_tile_id)
    /\ blue_tile_id \in BorderIds \cup {None}
    /\ red_tile_id \in BorderIds \cup {None}
    /\ SaveGuardPasses =>
           /\ Cardinality({id \in BorderIds : fill[id] = "#1e90ff"}) = 1
           /\ Cardinality({id \in BorderIds : fill[id] = "#ff4040"}) = 1

\* The guard passed and the export succeeded, with two border slots holding
\* markers and every other one plain.
C20_Witness ==
    /\ SaveGuardPasses
    /\ messagebox = "Saved"
    /\ Cardinality({id \in BorderIds : fill[id] = "black"}) = Cardinality(BorderIds) - 2

\* ---------------------------------------------------------------- C21
\* A single primary or secondary click on some border slot takes the
\* controller to Idle.
ClickReturnsToIdle ==
    \E p \in Pointer :
        /\ OnBorder(p[1], p[2])
        /\ \/ ENABLED (Button1(p[1], p[2]) /\ ~selecting_blue_tile' /\ ~selecting_red_tile')
           \/ ENABLED (Button3(p[1], p[2]) /\ ~selecting_blue_tile' /\ ~selecting_red_tile')

\* C21: in every reachable state in which the controller is selecting a
\* marker, on every grid and wherever the other marker is, some single click
\* on a border slot returns it to Idle; in Idle a primary or secondary click
\* on a border slot changes no marker, no fill and not the controller, and no
\* event at all changes a marker.
C21_NeverStuckSelecting ==
    /\ (SelectingPlayerMarker \/ SelectingDroneMarker) => ClickReturnsToIdle
    /\ Idle =>
           /\ \A p \in Pointer :
                  OnBorder(p[1], p[2])
                      => /\ ~ENABLED (Button1(p[1], p[2]) /\ ~UNCHANGED <<canvas, fill, session>>)
                         /\ ~ENABLED (Button3(p[1], p[2]) /\ ~UNCHANGED <<canvas, fill, session>>)
           /\ ~ENABLED (Next /\ ~UNCHANGED <<blue_tile_id, red_tile_id>>)

\* On the 1 x 1 grid the controller is selecting the drone marker right after
\* an attempt next to the player marker was refused.
C21_Witness ==
    /\ grid_cols = 1 /\ grid_rows = 1
    /\ SelectingDroneMarker
    /\ blue_tile_id # None /\ red_tile_id # None
    /\ status = "Red tile must not touch the blue tile."
    /\ ClickReturnsToIdle

====
